---- MODULE Spec2Model ----
(***************************************************************************)
(* CachedHash<T, BH>: a wrapper that memoizes the hash of the wrapped      *)
(* value in an AtomicOptionNonZeroU64 (src/src/cachedhash.rs,              *)
(* src/src/atomic.rs).                                                     *)
(*                                                                         *)
(* The atomic word is read and written with Ordering::Relaxed.  All        *)
(* accesses go to one location, whose modification order is total, so      *)
(* every load and every store of the word is one atomic step of the        *)
(* model and the steps of concurrent hashing calls interleave freely.      *)
(* The digest computation of the miss path reads only the value, which is  *)
(* immutable while &self is held, and thread-local data: it is one step    *)
(* with the load that found the slot empty.                                *)
(* &mut self operations need exclusive access: they are enabled only       *)
(* when no hashing call is in flight on the wrapper and no mutable         *)
(* reference to its value is outstanding.                                  *)
(***************************************************************************)
EXTENDS Integers, Sequences, FiniteSets

\* Bounds of the model.
MaxDigest == 2
MaxComputes == 3

\* The wrapped values T (the strings of the tests: foo.push('a')).
Values == {"foo", "fooa"}
\* The u64 results of Hasher::finish.
Digests == 0..MaxDigest

\* The wrapper objects (foo and foo2 of tests::hash_same_after_clone) and the
\* threads sharing them through &self.
Wrappers == {"foo", "foo2"}
\* The wrapper whose call history the history variables record.
watch == "foo2"
Threads == {"t1", "t2"}

\* BuildHasherDefault<H>: a zero-sized, stateless build hasher.
BuildHashers == {"BuildHasherDefault"}

VARIABLES
    alive,          \* alive[w]: the wrapper exists (constructed, not consumed)
    value,          \* CachedHash.value
    hash,           \* CachedHash.hash: the backing AtomicU64 word
    build_hasher,   \* CachedHash.build_hasher
    mutref,         \* mutref[w]: a &mut T to its value is outstanding
    sip,            \* the hasher H as a deterministic function of the value
    pc,             \* pc[t]: position of thread t inside Hash::hash
    self,           \* self[t]: the wrapper thread t is hashing (while pc[t] # "idle")
    local,          \* local[t]: the `hash` local of the miss path
    computes,       \* hasher invocations on `watch` since its last invalidating event
    overlap,        \* two hashing calls on it overlapped since that event
    last,           \* its most recent returned hashing call
    prev,           \* its returned hashing call before that
    since,          \* kinds of invalidating events on it after `last`
    between,        \* kinds of invalidating events on it between prev and last
    origin          \* how it was constructed, and the slot it started with

object == <<alive, value, hash, build_hasher, mutref>>
threads == <<pc, self, local>>
history == <<computes, overlap, last, prev, since, between, origin>>
vars == <<object, sip, threads, history>>

----------------------------------------------------------------------------
\* Option<_>
None == <<>>
Some(x) == <<x>>
unwrap(opt) == opt[1]
unwrap_or(opt, default) == IF opt = None THEN default ELSE opt[1]

\* NonZeroU64::new
NonZeroU64_new(x) == IF x = 0 THEN None ELSE Some(x)

----------------------------------------------------------------------------
\* AtomicOptionNonZeroU64 (src/src/atomic.rs); `word` is the AtomicU64.

\* new_none(): AtomicU64::new(0)
new_none == 0

\* new_some(value): AtomicU64::new(value.into())
new_some(v) == v

\* Fault: the word is wrapped without the test for 0
get_unchecked(word) == Some(word)
\* get(&self): load; None if the word is 0, else Some(value.try_into().unwrap())
get(word) == IF word = 0 THEN None ELSE Some(unwrap(NonZeroU64_new(word)))

\* Fault: the stored word read back as word - 1
get_raw_minus_one(word) == IF word = 0 THEN None ELSE Some(word - 1)
\* get_raw(&self): load; None if the word is 0, else Some(word)
get_raw(word) == IF word = 0 THEN None ELSE Some(word)

\* Fault: every store writes the empty sentinel
set_stores_none(word, opt) == 0
\* Fault: None is stored as 1 instead of 0
set_none_as_one(word, opt) == unwrap_or(opt, 1)
\* Fault: Some(v) is added to the word (fetch_add) instead of stored
set_fetch_add(word, opt) == IF opt = None THEN 0 ELSE word + opt[1]
\* set(&self, value): value.map(Into::into).unwrap_or(0), then store
set(word, opt) == unwrap_or(opt, 0)

\* Fault: the clone starts with an empty cell
atomic_clone_fresh(word) == new_none
\* Clone: a new cell holding the loaded word
atomic_clone(word) == word

----------------------------------------------------------------------------
\* Hasher::finish after self.value.hash(&mut hasher), the hasher made by bh
finish(bh, v) == sip[v]

\* Fault: no remap of the raw digest 0
remap_identity(raw) == raw
\* Fault: the digest is made non-zero by setting its lowest bit
remap_or_one(raw) == IF raw % 2 = 0 THEN raw + 1 ELSE raw
\* NonZeroU64::new(hasher.finish()).unwrap_or(NonZeroU64::new(1).unwrap())
remap(raw) == unwrap_or(NonZeroU64_new(raw), unwrap(NonZeroU64_new(1)))

\* The raw digest of wrapper w's current value, and the digest the miss
\* path computes from it
raw(w) == finish(build_hasher[w], value[w])
digest(w) == remap(raw(w))

----------------------------------------------------------------------------
NoCall == [fed |-> <<>>, v |-> "foo", path |-> "none"]
Call(d, v, p) == [fed |-> <<d>>, v |-> v, path |-> p]
Kinds == {"invalidate", "mut"}

InFlight(w) == {t \in Threads : pc[t] # "idle" /\ self[t] = w}
\* &self can be taken: no &mut T is outstanding
Shared(w) == alive[w] /\ ~mutref[w]
\* &mut self (or self by value) can be taken
Exclusive(w) == Shared(w) /\ InFlight(w) = {}

\* Thread t may call hash on w.  Calls on different wrappers do not touch
\* each other's state, so races are explored on the watched wrapper: t1 calls
\* on either wrapper, t2 is the second caller on the watched one.
Caller(t, w) == t = "t2" => w = watch

Inc(n) == IF n < MaxComputes THEN n + 1 ELSE n

TypeOK ==
    /\ alive \in [Wrappers -> BOOLEAN]
    /\ value \in [Wrappers -> Values]
    /\ hash \in [Wrappers -> Digests]
    /\ build_hasher \in [Wrappers -> BuildHashers]
    /\ mutref \in [Wrappers -> BOOLEAN]
    /\ sip \in [Values -> Digests]
    /\ pc \in [Threads -> {"idle", "computed", "stored"}]
    /\ self \in [Threads -> Wrappers]
    /\ local \in [Threads -> Digests]
    /\ computes \in 0..MaxComputes
    /\ overlap \in BOOLEAN
    /\ since \in SUBSET Kinds
    /\ between \in SUBSET Kinds
    /\ origin \in [kind : {"none", "new", "clone", "taken"}, slot : Digests]

----------------------------------------------------------------------------
\* History of the construction of wrapper w
Fresh(w, kind, slot) ==
    IF w = watch
    THEN /\ computes' = 0
         /\ overlap' = FALSE
         /\ last' = NoCall
         /\ prev' = NoCall
         /\ since' = {}
         /\ between' = {}
         /\ origin' = [kind |-> kind, slot |-> slot]
    ELSE UNCHANGED history

\* History of an invalidating event on w
Invalidated(w, kind) ==
    IF w = watch
    THEN /\ computes' = 0
         /\ overlap' = FALSE
         /\ since' = since \cup {kind}
         /\ UNCHANGED <<last, prev, between, origin>>
    ELSE UNCHANGED history

\* History of a hashing call on w starting
Started(w) ==
    IF w = watch
    THEN overlap' = (overlap \/ InFlight(w) # {})
    ELSE UNCHANGED overlap

\* History of a hashing call on w returning after feeding d
Returned(w, d, p) ==
    IF w = watch
    THEN /\ prev' = last
         /\ between' = since
         /\ last' = Call(d, value[w], p)
         /\ since' = {}
         /\ UNCHANGED origin
    ELSE UNCHANGED <<last, prev, since, between, origin>>

----------------------------------------------------------------------------
\* Fault: the constructor starts the slot at Some(1)
new_with_build_hasher_cached(w, v, bh) ==
    /\ ~alive[w]
    /\ alive' = [alive EXCEPT ![w] = TRUE]
    /\ value' = [value EXCEPT ![w] = v]
    /\ hash' = [hash EXCEPT ![w] = set(new_none, NonZeroU64_new(1))]
    /\ build_hasher' = [build_hasher EXCEPT ![w] = bh]
    /\ Fresh(w, "new", new_none)
    /\ UNCHANGED <<mutref, sip, threads>>
\* CachedHash::new_with_build_hasher(value, build_hasher)
new_with_build_hasher(w, v, bh) ==
    /\ ~alive[w]
    /\ alive' = [alive EXCEPT ![w] = TRUE]
    /\ value' = [value EXCEPT ![w] = v]
    /\ hash' = [hash EXCEPT ![w] = new_none]
    /\ build_hasher' = [build_hasher EXCEPT ![w] = bh]
    /\ Fresh(w, "new", new_none)
    /\ UNCHANGED <<mutref, sip, threads>>

\* BuildHasherDefault::default()
BuildHasherDefault_default == "BuildHasherDefault"
\* CachedHash::new_with_hasher(value)
new_with_hasher(w, v) == new_with_build_hasher(w, v, BuildHasherDefault_default)
\* CachedHash::new(value): Self::new_with_hasher(value)
new(w, v) == new_with_hasher(w, v)
\* From<T>::from(value): Self::new_with_hasher(value)
from(w, v) == new_with_hasher(w, v)

\* Fault: invalidation leaves the word as it is
invalidate_hash_noop(word) == word
\* invalidate_hash: this.hash.set(None)
invalidate_hash(word) == set(word, None)

\* Fault: the slots of all wrappers are one shared cell
InvalidateHash_shared(w) ==
    /\ Exclusive(w)
    /\ hash' = [x \in Wrappers |-> invalidate_hash(hash[x])]
    /\ Invalidated(w, "invalidate")
    /\ UNCHANGED <<alive, value, build_hasher, mutref, sip, threads>>
\* CachedHash::invalidate_hash(this: &mut Self)
InvalidateHash(w) ==
    /\ Exclusive(w)
    /\ hash' = [hash EXCEPT ![w] = invalidate_hash(@)]
    /\ Invalidated(w, "invalidate")
    /\ UNCHANGED <<alive, value, build_hasher, mutref, sip, threads>>

\* Fault: mutable access without invalidation
get_mut_keeps_hash(word) == word
\* get_mut: Self::invalidate_hash(this); &mut this.value
get_mut(word) == invalidate_hash(word)

\* The slot is cleared and the &mut T handed out
MutAccess(w) ==
    /\ Exclusive(w)
    /\ hash' = [hash EXCEPT ![w] = get_mut(@)]
    /\ mutref' = [mutref EXCEPT ![w] = TRUE]
    /\ Invalidated(w, "mut")
    /\ UNCHANGED <<alive, value, build_hasher, sip, threads>>

\* CachedHash::get_mut(this: &mut Self)
GetMut(w) == MutAccess(w)
\* DerefMut::deref_mut: Self::get_mut(self)
DerefMut(w) == MutAccess(w)
\* AsMut::as_mut: Self::get_mut(self)
AsMut(w) == MutAccess(w)
\* BorrowMut::borrow_mut: Self::get_mut(self)
BorrowMut(w) == MutAccess(w)

\* Fault: the read-only accessor clears the slot, as get_mut does
ReadAccess_invalidates(w) ==
    /\ Shared(w)
    /\ hash' = [hash EXCEPT ![w] = set(@, None)]
    /\ UNCHANGED <<alive, value, build_hasher, mutref, sip, threads, history>>
\* get: &this.value; nothing is written
ReadAccess(w) ==
    /\ Shared(w)
    /\ UNCHANGED vars

\* CachedHash::get(this: &Self)
Get(w) == ReadAccess(w)
\* Deref::deref: Self::get(self)
Deref(w) == ReadAccess(w)
\* AsRef::as_ref: Self::get(self)
AsRef(w) == ReadAccess(w)
\* Borrow::borrow: Self::get(self)
Borrow(w) == ReadAccess(w)

\* Fault: equality as a derive would define it, over every field
eq_derived(a, b) == value[a] = value[b] /\ hash[a] = hash[b]
\* PartialEq::eq: self.value == other.value
eq(a, b) == value[a] = value[b]

\* a == b: both wrappers are read through &self
Eq(a, b) ==
    /\ Shared(a) /\ Shared(b)
    /\ eq(a, b) \in BOOLEAN
    /\ UNCHANGED vars

\* The caller writes through the &mut T (foo.push('a'))
Mutate(w, v) ==
    /\ alive[w] /\ mutref[w]
    /\ value' = [value EXCEPT ![w] = v]
    /\ UNCHANGED <<alive, hash, build_hasher, mutref, sip, threads, history>>

\* The &mut T goes out of scope
Release(w) ==
    /\ alive[w] /\ mutref[w]
    /\ mutref' = [mutref EXCEPT ![w] = FALSE]
    /\ UNCHANGED <<alive, value, hash, build_hasher, sip, threads, history>>

\* Fault: the value returned is T::default(), as of mem::take
take_value_default(w) == "foo"
\* take_value: this.value
take_value(w) == value[w]

\* CachedHash::take_value(this: Self): the wrapper is consumed; value[w] of
\* the consumed wrapper is the T returned to the caller, and the history
\* keeps the slot it was consumed with
TakeValue(w) ==
    /\ Exclusive(w)
    /\ alive' = [alive EXCEPT ![w] = FALSE]
    /\ value' = [value EXCEPT ![w] = take_value(w)]
    /\ hash' = [hash EXCEPT ![w] = new_none]
    /\ Fresh(w, "taken", hash[w])
    /\ UNCHANGED <<build_hasher, mutref, sip, threads>>

\* Clone::clone(&self): value, slot snapshot and build hasher are copied
Clone(src, dst) ==
    /\ Shared(src) /\ ~alive[dst]
    /\ alive' = [alive EXCEPT ![dst] = TRUE]
    /\ value' = [value EXCEPT ![dst] = value[src]]
    /\ hash' = [hash EXCEPT ![dst] = atomic_clone(hash[src])]
    /\ build_hasher' = [build_hasher EXCEPT ![dst] = build_hasher[src]]
    /\ Fresh(dst, "clone", hash[src])
    /\ UNCHANGED <<mutref, sip, threads>>

----------------------------------------------------------------------------
\* Hash::hash(&self, state)

\* if let Some(hash) = self.hash.get_raw() { state.write_u64(hash) }
HashHit(t, w) ==
    /\ pc[t] = "idle" /\ Shared(w) /\ Caller(t, w)
    /\ get_raw(hash[w]) # None
    /\ Started(w)
    /\ Returned(w, unwrap(get_raw(hash[w])), "hit")
    /\ UNCHANGED <<object, sip, threads, computes>>

\* else: build_hasher(), self.value.hash(&mut hasher), finish(), remap
HashMiss(t, w) ==
    /\ pc[t] = "idle" /\ Shared(w) /\ Caller(t, w)
    /\ get_raw(hash[w]) = None
    /\ Started(w)
    /\ pc' = [pc EXCEPT ![t] = "computed"]
    /\ self' = [self EXCEPT ![t] = w]
    /\ local' = [local EXCEPT ![t] = digest(w)]
    /\ computes' = IF w = watch THEN Inc(computes) ELSE computes
    /\ UNCHANGED <<object, sip, last, prev, since, between, origin>>

\* Fault: the store is a compare-exchange from 0 whose failure restarts the call
HashSet_cas_retry(t) ==
    /\ pc[t] = "computed"
    /\ hash' = [hash EXCEPT ![self[t]] =
                    IF @ = 0 THEN set(@, NonZeroU64_new(local[t])) ELSE @]
    /\ pc' = [pc EXCEPT ![t] = IF hash[self[t]] = 0 THEN "stored" ELSE "idle"]
    /\ UNCHANGED <<alive, value, build_hasher, mutref, sip, self, local, history>>
\* Fault: the store is left for after state.write_u64
HashSet_after_feed(t) ==
    /\ pc[t] = "computed"
    /\ pc' = [pc EXCEPT ![t] = "stored"]
    /\ UNCHANGED <<object, sip, self, local, history>>
\* self.hash.set(Some(hash))
HashSet(t) ==
    /\ pc[t] = "computed"
    /\ hash' = [hash EXCEPT ![self[t]] = set(@, NonZeroU64_new(local[t]))]
    /\ pc' = [pc EXCEPT ![t] = "stored"]
    /\ UNCHANGED <<alive, value, build_hasher, mutref, sip, self, local, history>>

\* state.write_u64(hash.into()); the call returns
HashWrite(t) ==
    /\ pc[t] = "stored"
    /\ Returned(self[t], local[t], "miss")
    /\ pc' = [pc EXCEPT ![t] = "idle"]
    /\ self' = [self EXCEPT ![t] = "foo"]
    /\ local' = [local EXCEPT ![t] = 0]
    /\ UNCHANGED <<object, sip, computes, overlap>>

\* The word a call of hash on w feeds to the accumulator when it runs alone
\* from the current state: the stored word if get_raw gives Some, else the
\* digest computed from the value
hash_output(w) ==
    IF get_raw(hash[w]) # None THEN unwrap(get_raw(hash[w])) ELSE digest(w)

----------------------------------------------------------------------------
\* The hasher functions, up to symmetry.  The two values are interchangeable
\* (every operation takes either), so one function of each pair exchanging
\* them is kept; and the code treats only 0 (the empty word) and 1 (what 0 is
\* remapped to) specially, so the digests above 1 are interchangeable and a
\* function uses one of them only after the one below it.
Hashers ==
    {f \in [Values -> Digests] :
        /\ f["foo"] <= f["fooa"]
        /\ \A v \in Values :
              f[v] > 2 => \E u \in Values : f[u] = f[v] - 1}

\* No wrapper constructed yet; the hasher is any function of the value
Init ==
    /\ sip \in Hashers
    /\ alive = [w \in Wrappers |-> FALSE]
    /\ value = [w \in Wrappers |-> "foo"]
    /\ hash = [w \in Wrappers |-> new_none]
    /\ build_hasher = [w \in Wrappers |-> "BuildHasherDefault"]
    /\ mutref = [w \in Wrappers |-> FALSE]
    /\ pc = [t \in Threads |-> "idle"]
    /\ self = [t \in Threads |-> "foo"]
    /\ local = [t \in Threads |-> 0]
    /\ computes = 0
    /\ overlap = FALSE
    /\ last = NoCall
    /\ prev = NoCall
    /\ since = {}
    /\ between = {}
    /\ origin = [kind |-> "none", slot |-> new_none]

Next ==
    \/ \E w \in Wrappers, v \in Values, bh \in BuildHashers : new_with_build_hasher(w, v, bh)
    \/ \E w \in Wrappers, v \in Values : new_with_hasher(w, v)
    \/ \E w \in Wrappers, v \in Values : new(w, v)
    \/ \E w \in Wrappers, v \in Values : from(w, v)
    \/ \E w \in Wrappers : InvalidateHash(w)
    \* get_mut, and deref_mut, as_mut, borrow_mut, which are calls of it
    \/ \E w \in Wrappers : MutAccess(w)
    \* get, and deref, as_ref, borrow, which are calls of it
    \/ \E w \in Wrappers : ReadAccess(w)
    \/ \E a \in Wrappers : \E b \in Wrappers \ {a} : Eq(a, b)
    \/ \E w \in Wrappers, v \in Values : Mutate(w, v)
    \/ \E w \in Wrappers : Release(w)
    \/ \E w \in Wrappers : TakeValue(w)
    \/ \E src \in Wrappers, dst \in Wrappers : Clone(src, dst)
    \/ \E t \in Threads, w \in Wrappers : HashHit(t, w)
    \/ \E t \in Threads, w \in Wrappers : HashMiss(t, w)
    \/ \E t \in Threads : HashSet(t)
    \/ \E t \in Threads : HashWrite(t)

Spec == Init /\ [][Next]_vars

----------------------------------------------------------------------------
\* The claims state the remap rule themselves: 0 becomes 1, any other raw
\* digest is kept.
Remap01(x) == IF x = 0 THEN 1 ELSE x
\* The raw digest of a value v under wrapper w's hasher
RawOf(w, v) == finish(build_hasher[w], v)
\* The watched wrapper's two most recent calls were made one after the other
\* with no operation on it in between, and none since
Consecutive == alive[watch] /\ prev.path # "none" /\ between = {} /\ since = {}

\* C1: whenever the hash slot of a wrapper is non-empty and holds d, d is
\* Remap01 of the raw digest of the wrapper's current value; the slot never
\* holds the digest of an earlier value.
C1_SlotHoldsCurrentDigest ==
    \A w \in Wrappers :
        alive[w] /\ hash[w] # 0 => hash[w] = Remap01(RawOf(w, value[w]))

\* C1 witness: the value was changed between two hashing calls, the digests
\* of the old and new value differ, and the slot holds the new one.
C1_Witness ==
    /\ alive[watch] /\ hash[watch] # 0 /\ since = {}
    /\ "mut" \in between /\ prev.path # "none"
    /\ prev.v # value[watch] /\ prev.fed # <<hash[watch]>>

\* C2: while a mutable reference handed out by get_mut, deref_mut, as_mut
\* or borrow_mut is outstanding, the slot is Empty, whatever it held before
\* and whether or not the caller changes the value.
C2_MutableAccessClearsSlot ==
    \A w \in Wrappers : alive[w] /\ mutref[w] => get_raw(hash[w]) = None

\* C2 witness: the wrapper was hashed (slot Cached), nothing but mutable
\* access happened since, the reference is out and the value was changed.
C2_Witness ==
    /\ alive[watch] /\ mutref[watch] /\ hash[watch] = 0
    /\ last.path # "none" /\ since = {"mut"} /\ value[watch] # last.v

C4_ZeroDigestRemap ==
    alive[watch] /\ last.path # "none" /\ since = {} /\ RawOf(watch, last.v) = 0 =>
        /\ last.fed = <<1>>
        /\ hash[watch] = 1
        /\ get_raw(hash[watch]) = Some(1)
        /\ (Consecutive /\ ~overlap => last.path = "hit")

\* C4 witness: raw digest 0, a miss-path call fed 1, the next call hit.
C4_Witness ==
    /\ Consecutive /\ ~overlap /\ RawOf(watch, value[watch]) = 0
    /\ prev.path = "miss" /\ prev.fed = <<1>>
    /\ last.path = "hit" /\ last.fed = <<1>> /\ hash[watch] = 1

\* C5: two consecutive hashing calls on CachedHash::new(v) with no
\* operation in between feed the same digest.
C5_Stability ==
    Consecutive /\ origin.kind = "new" => last.fed = prev.fed /\ Len(last.fed) = 1

\* C5 witness: on a wrapper made by new, a miss-path call then a fast-path
\* call, with the same digest.
C5_Witness ==
    /\ Consecutive /\ origin.kind = "new" /\ ~overlap
    /\ prev.path = "miss" /\ last.path = "hit" /\ last.fed = prev.fed

\* C6: after invalidate_hash the slot is Empty whatever it held; the hashing
\* call made after it feeds the digest the call before the invalidation fed,
\* the digest was recomputed for it, and by that call itself (miss path)
\* unless it overlapped another hashing call.
C6_ManualInvalidation ==
    /\ alive[watch] /\ "invalidate" \in since /\ InFlight(watch) = {}
            => get_raw(hash[watch]) = None
    /\ alive[watch] /\ prev.path # "none" /\ between = {"invalidate"}
            => /\ last.fed = prev.fed /\ Len(last.fed) = 1
               /\ (since = {} => computes >= 1 /\ get_raw(hash[watch]) # None)
               /\ (since = {} /\ ~overlap => last.path = "miss")

\* C6 witness: a call left the slot Cached, invalidate_hash, then a
\* miss-path call with the same digest, and the slot is Cached again.
C6_Witness ==
    /\ alive[watch] /\ prev.path # "none" /\ between = {"invalidate"} /\ since = {}
    /\ last.path = "miss" /\ last.fed = prev.fed /\ hash[watch] # 0
    /\ ~overlap /\ computes = 1

\* C7: hash, mutable access that leaves the content as it was, hash: the
\* second call feeds the digest the first one fed, the digest was recomputed
\* for it, and by that call itself (miss path) unless it overlapped another
\* hashing call.
C7_NoopMutableAccess ==
    alive[watch] /\ prev.path # "none" /\ between = {"mut"} /\ prev.v = last.v
        => /\ last.fed = prev.fed /\ Len(last.fed) = 1
           /\ (since = {} => computes >= 1)
           /\ (since = {} /\ ~overlap => last.path = "miss")

\* C7 witness: hash, get_mut without a change, and a miss-path call that
\* fed the same digest.
C7_Witness ==
    /\ alive[watch] /\ prev.path # "none" /\ between = {"mut"} /\ prev.v = last.v
    /\ last.path = "miss" /\ last.fed = prev.fed /\ ~mutref[watch]
    /\ since = {} /\ ~overlap /\ computes = 1

\* C8: hash, a mutation from v to v2 through mutable access, hash: the two
\* digests differ when raw(v) # raw(v2) and {raw(v), raw(v2)} # {0, 1}; and
\* a call on a value whose raw digest is not 0 feeds that raw digest.
C8_DigestFollowsContent ==
    /\ alive[watch] /\ prev.path # "none" /\ "mut" \in between
       /\ RawOf(watch, prev.v) # RawOf(watch, last.v)
       /\ {RawOf(watch, prev.v), RawOf(watch, last.v)} # {0, 1}
            => last.fed # prev.fed
    /\ alive[watch] /\ last.path # "none" /\ RawOf(watch, last.v) # 0
            => last.fed = <<RawOf(watch, last.v)>>

\* C8 witness: the value was changed between two calls and the second
\* digest differs from the first.
C8_Witness ==
    /\ alive[watch] /\ prev.path # "none" /\ between = {"mut"}
    /\ prev.v # last.v /\ last.fed # prev.fed
    /\ RawOf(watch, prev.v) # 0 /\ RawOf(watch, last.v) # 0

\* C9: a clone starts with the slot the source had when it was cloned; when
\* that slot was Cached(d), the clone's first hashing call takes the fast
\* path, feeds d, and the hasher is not invoked on the clone.
C9_ClonePreservesCache ==
    /\ alive[watch] /\ origin.kind = "clone" /\ last.path = "none"
       /\ since = {} /\ InFlight(watch) = {}
            => hash[watch] = origin.slot /\ computes = 0
    /\ alive[watch] /\ origin.kind = "clone" /\ origin.slot # 0
       /\ prev.path = "none" /\ last.path # "none" /\ between = {}
            => /\ last.path = "hit"
               /\ last.fed = <<origin.slot>>
               /\ (since = {} => computes = 0)

\* C9 witness: a clone of a hashed source made its first call on the fast
\* path and fed the source's digest.
C9_Witness ==
    /\ alive[watch] /\ origin.kind = "clone" /\ origin.slot # 0
    /\ prev.path = "none" /\ last.path = "hit" /\ between = {} /\ since = {}
    /\ last.fed = <<origin.slot>> /\ computes = 0

\* C10: with hashing calls racing on a shared wrapper, every call holds,
\* stores and feeds d = Remap01(raw(value)); the slot is Empty or d in every
\* state, d once a call has stored it, and d once a call has returned.
C10_BenignRace ==
    /\ \A t \in Threads : pc[t] # "idle" =>
            local[t] = Remap01(RawOf(self[t], value[self[t]]))
    /\ \A t \in Threads : pc[t] = "stored" =>
            hash[self[t]] = Remap01(RawOf(self[t], value[self[t]]))
    /\ \A w \in Wrappers : alive[w] =>
            hash[w] \in {0, Remap01(RawOf(w, value[w]))}
    /\ alive[watch] /\ last.path # "none" /\ since = {} =>
            /\ hash[watch] = Remap01(RawOf(watch, value[watch]))
            /\ last.fed = <<Remap01(RawOf(watch, value[watch]))>>

\* C10 witness: two calls raced, both computed and stored, and both fed the
\* digest the slot holds.
C10_Witness ==
    /\ Consecutive /\ overlap /\ computes = 2
    /\ prev.path = "miss" /\ last.path = "miss"
    /\ prev.fed = last.fed /\ last.fed = <<hash[watch]>>
    /\ InFlight(watch) = {}

\* C11: a == b holds exactly when the wrapped values are equal, whatever the
\* two slots hold.
C11_EqualityIgnoresCache ==
    \A a \in Wrappers, b \in Wrappers :
        alive[a] /\ alive[b] => (eq(a, b) <=> value[a] = value[b])

\* C11 witness: a hashed wrapper and an unhashed wrapper of equal values
\* compare equal.
C11_Witness ==
    /\ alive["foo"] /\ alive[watch] /\ value["foo"] = value[watch]
    /\ hash["foo"] # 0 /\ hash[watch] = 0 /\ last.path = "none"
    /\ eq("foo", watch)

\* C12: a wrapper made by a constructor (not by clone) has an Empty slot until
\* a hashing call stores into it, and the first hashing call to return on it
\* feeds the digest computed from the value: a computation took place, and
\* the call itself took the miss path unless it raced with another call.
C12_ConstructorsStartEmpty ==
    alive[watch] /\ origin.kind = "new" =>
        /\ (last.path = "none" /\ since = {} /\ computes = 0
                => get_raw(hash[watch]) = None)
        /\ (last.path # "none" /\ prev.path = "none" /\ between = {}
                => /\ last.fed = <<Remap01(sip[last.v])>>
                   /\ (since = {} => computes >= 1)
                   /\ (since = {} /\ ~overlap => last.path = "miss"))
C12_Witness ==
    /\ alive[watch] /\ origin.kind = "new"
    /\ last.path = "miss" /\ prev.path = "none" /\ between = {}
    /\ since = {} /\ ~overlap /\ computes = 1
    /\ last.v = "fooa" /\ hash[watch] = last.fed[1]

\* The values of NonZeroU64 within the bound
NonZero == Digests \ {0}

\* C13: the atomic cell is an Option<NonZeroU64> register: new_none reads None,
\* new_some(v) reads Some(v), a read after set(Some(v)) gives Some(v) and after
\* set(None) gives None, for get and get_raw alike; the two reads agree, and
\* give None exactly when the word is 0.  Checked on the word of every
\* wrapper's cell and the digest v held by every hashing call: a cell a call
\* has stored into reads Some of the digest stored, a cell cleared for mutable
\* access reads None.
C13_OptionRegister ==
    /\ get(new_none) = None /\ get_raw(new_none) = None
    /\ \A w \in Wrappers :
          /\ get(hash[w]) = get_raw(hash[w])
          /\ (get(hash[w]) = None <=> hash[w] = 0)
          /\ get(set(hash[w], None)) = None
          /\ get_raw(set(hash[w], None)) = None
          /\ (alive[w] /\ mutref[w] => get(hash[w]) = None)
    /\ \A t \in Threads :
          /\ local[t] \in NonZero =>
                /\ get(new_some(local[t])) = Some(local[t])
                /\ get_raw(new_some(local[t])) = Some(local[t])
                /\ get(set(hash[self[t]], Some(local[t]))) = Some(local[t])
                /\ get_raw(set(hash[self[t]], Some(local[t]))) = Some(local[t])
          /\ pc[t] = "stored" => get(hash[self[t]]) = Some(local[t])
C13_Witness ==
    /\ \E t \in Threads :
          /\ pc[t] = "stored" /\ self[t] = watch /\ local[t] = MaxDigest
          /\ get(hash[watch]) = Some(MaxDigest)
          /\ get_raw(hash[watch]) = Some(MaxDigest)
    /\ alive["foo"] /\ mutref["foo"] /\ get(hash["foo"]) = None

\* What one step may do to the value of a wrapper
C14_TakeValueStep ==
    \A w \in Wrappers :
        /\ (alive[w] /\ ~alive'[w] => value'[w] = value[w])
        /\ (alive[w] /\ alive'[w] /\ value'[w] # value[w]
                => mutref[w] /\ hash' = hash /\ pc' = pc)
        /\ (w = watch /\ alive[w] /\ last.path # "none" /\ "mut" \notin since
                => value[w] = last.v)
\* C14: take_value returns the wrapper's current value whatever its slot
\* holds; the value of a live wrapper changes only by a write through an
\* outstanding &mut T, a step that is no hashing step and no invalidation; and
\* as long as no mutable access was taken since a hashing call returned, the
\* value is the one that call hashed, however many calls and invalidations
\* followed.
C14_TakeValueReturnsCurrent == [][C14_TakeValueStep]_vars
C14_Witness ==
    /\ ~alive[watch] /\ origin.kind = "taken" /\ origin.slot # 0
    /\ value[watch] = "fooa" /\ hash[watch] = new_none

\* What one step may do to the slot of a wrapper
C15_SlotStep ==
    \A w \in Wrappers :
        /\ (w = watch /\ ~alive[w] /\ alive'[w] /\ origin'.kind = "new"
                => get_raw(hash'[w]) = None)
        /\ (alive[w] /\ alive'[w] =>
              \* Empty to Cached(d): the store of a hashing call on w, and
              \* no invalidation or mutable access
              /\ (hash[w] = 0 /\ hash'[w] # 0
                    => /\ \E t \in Threads : self[t] = w /\ HashSet(t)
                       /\ ~(\/ InvalidateHash(w)
                            \/ GetMut(w) \/ DerefMut(w) \/ AsMut(w) \/ BorrowMut(w)))
              \* Cached(d) to Empty: invalidate_hash or a mutable accessor
              /\ (hash[w] # 0 /\ hash'[w] = 0
                    => \/ InvalidateHash(w)
                       \/ GetMut(w) \/ DerefMut(w) \/ AsMut(w) \/ BorrowMut(w))
              \* never Cached(d) to Cached(d')
              /\ (hash[w] # 0 /\ hash'[w] # 0 => hash'[w] = hash[w])
              \* a step that changes the slot is no read-only operation and
              \* no step of hashing other than the store
              /\ (hash'[w] # hash[w]
                    => ~(\/ Get(w) \/ Deref(w) \/ AsRef(w) \/ Borrow(w)
                         \/ \E b \in Wrappers : Eq(w, b) \/ Eq(b, w)
                         \/ \E t \in Threads :
                                \/ HashHit(t, w) \/ HashMiss(t, w)
                                \/ (self[t] = w /\ HashWrite(t)))))
\* C15: within the life of a wrapper its slot is a two-state machine.  A
\* constructor starts it Empty; the only step from Empty to Cached(d) is the
\* store of a hashing call, and every step of a hashing call on Cached(d)
\* leaves Cached(d); the only steps to Empty are invalidate_hash and the
\* mutable accessors, which also leave Empty as Empty; get, deref, as_ref,
\* borrow and == leave the slot as it is; no step takes Cached(d) to Cached(d')
\* with d' # d.
C15_TwoStateMachine == [][C15_SlotStep]_vars
\* C15 witness: the watched slot went Empty, Cached, Empty, Cached
C15_Witness ==
    /\ alive[watch] /\ origin.kind = "new"
    /\ prev.path = "miss" /\ between = {"invalidate", "mut"}
    /\ last.path = "miss" /\ since = {} /\ get_raw(hash[watch]) = Some(last.fed[1])
    /\ alive["foo"] /\ hash["foo"] = 0 /\ eq("foo", watch)

\* C16: every hashing call that returned fed exactly one word, never 0; with
\* no other call overlapping it and no invalidation since, the slot holds
\* Cached of that word; and a call on the miss path holds a non-zero word and
\* has the slot written with it when it comes to feed it.
C16_FeedsStoredWord ==
    /\ alive[watch] /\ last.path # "none" =>
          /\ Len(last.fed) = 1 /\ last.fed[1] # 0
          /\ (since = {} /\ ~overlap => get_raw(hash[watch]) = Some(last.fed[1]))
    /\ alive[watch] /\ prev.path # "none" =>
          Len(prev.fed) = 1 /\ prev.fed[1] # 0
    /\ \A t \in Threads :
          /\ pc[t] = "computed" => local[t] # 0
          /\ pc[t] = "stored" =>
                local[t] # 0 /\ get_raw(hash[self[t]]) = Some(local[t])
\* C16 witness: a hit and then, after an invalidation, a miss returned on one
\* thread, and the slot holds the word the miss fed
C16_Witness ==
    /\ alive[watch] /\ prev.path = "hit" /\ last.path = "miss"
    /\ since = {} /\ ~overlap /\ InFlight(watch) = {}
    /\ last.fed[1] = MaxDigest /\ get_raw(hash[watch]) = Some(last.fed[1])

\* What a step on one wrapper may do to another wrapper
C17_FrameStep ==
    \A a \in Wrappers : \A b \in Wrappers \ {a} :
        /\ (hash'[a] # hash[a] \/ value'[a] # value[a] \/ alive'[a] # alive[a]
                => /\ hash'[b] = hash[b] /\ value'[b] = value[b]
                   /\ alive'[b] = alive[b] /\ mutref'[b] = mutref[b])
        /\ (mutref'[a] # mutref[a] => mutref'[b] = mutref[b])
\* C17: the slots and values of two wrappers are separate: a step that
\* changes the slot or the value of one wrapper (an invalidation, a mutable
\* access, a write through &mut T, the store of a hashing call) leaves the slot
\* and the value of every other live wrapper as they were, and cloning leaves
\* the source as it was.
C17_CloneIndependence == [][C17_FrameStep]_vars
\* C17 witness: the watched wrapper is a clone taken with a Cached slot and
\* since invalidated, and its source still holds the slot it was cloned from
C17_Witness ==
    /\ alive[watch] /\ origin.kind = "clone" /\ origin.slot # 0
    /\ hash[watch] = 0 /\ last.path = "none" /\ since = {"invalidate"}
    /\ alive["foo"] /\ hash["foo"] = origin.slot /\ eq("foo", watch)

\* What one step may do to a hashing call
C18_WaitFreeStep ==
    /\ \A t \in Threads :
          /\ (pc'[t] # pc[t] =>
                <<pc[t], pc'[t]>> \in {<<"idle", "computed">>,
                                       <<"computed", "stored">>,
                                       <<"stored", "idle">>})
          /\ (pc[t] = "computed" => ENABLED HashSet(t))
          /\ (pc[t] = "stored" => ENABLED HashWrite(t))
          /\ (pc[t] = "idle" /\ Shared(watch) =>
                ENABLED (HashHit(t, watch) \/ HashMiss(t, watch)))
          /\ (pc[t] = "idle" /\ pc'[t] = "computed" => hash[self'[t]] = 0)
    /\ (computes' # computes /\ alive'[watch] /\ since' = since =>
            /\ computes' = computes + 1
            /\ hash[watch] = 0
            /\ \E t \in Threads : pc[t] = "idle" /\ pc'[t] = "computed")
    /\ (hash'[watch] # hash[watch] /\ pc' # pc =>
            \E t \in Threads : pc[t] = "computed" /\ pc'[t] = "stored")
    /\ computes <= Cardinality(Threads)
\* C18: hashing is wait-free.  The steps of a call are the load (with the
\* digest computation when it finds the slot empty), then one store, then the
\* feed, in that order and never again; whatever the other threads do, the
\* next step of a call in flight is enabled, and so is the start of a call on
\* a shared wrapper.  A call starts on the miss path only when its load finds
\* the slot Empty: once a store has been made, every call whose load comes
\* after it takes the fast path.  So the hasher is invoked only by calls that
\* loaded before the first store, at most one per thread between two
\* invalidations.
C18_WaitFree == [][C18_WaitFreeStep]_vars
\* C18 witness: two racing calls both computed and stored, and a call started
\* after their stores took the fast path with no further computation
C18_Witness ==
    /\ alive[watch] /\ overlap /\ computes = Cardinality(Threads)
    /\ prev.path = "miss" /\ last.path = "hit"
    /\ between = {} /\ since = {} /\ InFlight(watch) = {}
    /\ get_raw(hash[watch]) = Some(last.fed[1])

\* C19: hashing agrees with equality whatever the cache history: two live
\* wrappers with the same build hasher and equal values feed the same word,
\* whatever their slots hold; a call in flight holds the word any equal
\* wrapper feeds; and the word the watched wrapper's last call fed is the one
\* any wrapper equal to the value it hashed feeds.
C19_HashEqConsistency ==
    /\ \A a \in Wrappers, b \in Wrappers :
          alive[a] /\ alive[b] /\ build_hasher[a] = build_hasher[b] /\ eq(a, b)
                => hash_output(a) = hash_output(b)
    /\ \A t \in Threads, b \in Wrappers :
          pc[t] # "idle" /\ alive[b] /\ eq(self[t], b)
                => local[t] = hash_output(b)
    /\ \A b \in Wrappers :
          alive[watch] /\ alive[b] /\ last.path # "none" /\ value[b] = last.v
                => last.fed = <<hash_output(b)>>
\* C19 witness: the watched wrapper was hashed, mutated and hashed again and
\* holds the digest; the other wrapper, equal to it, has an Empty slot; both
\* feed the same word
C19_Witness ==
    /\ alive[watch] /\ alive["foo"] /\ eq("foo", watch)
    /\ prev.path # "none" /\ "mut" \in between /\ prev.v # last.v
    /\ since = {} /\ hash[watch] # 0 /\ hash["foo"] = 0
    /\ last.fed = <<hash_output("foo")>> /\ last.fed # prev.fed

====
